---- MODULE Spec2Model ----
(***************************************************************************)
(* Model of the coverage-aggregation program                               *)
(* (SatelliteCoverage/coverage_frequency_map.py) and of the Delaunay       *)
(* triangulation program (d02_delaunay_triangulation.py).                  *)
(*                                                                         *)
(* Arithmetic is exact: a float is modelled by a rational num/den, so the  *)
(* model says nothing about rounding.                                      *)
(***************************************************************************)
EXTENDS Integers, Sequences, FiniteSets, TLC

VARIABLES
    cfg,            \* configuration: the two coverage_frequency flags and options['resolution']
    loader,         \* per interval, what compile_data/convert_to_grid yield for it
    interval_list,  \* main's interval_list (indices into loader) once divide_intervals ran
    il_defined,     \* whether the name interval_list is bound in main
    date_pairs,     \* main's date_pairs
    xy,             \* projected points of the master dataframe
    xbins, ybins,   \* bin edges returned by get_map_bins
    pc,             \* position of the coverage main program
    err,            \* the exception that ended the coverage run, "none" otherwise
    i,              \* loop index of the running aggregation mode
    df,             \* rows of coverage_timeseries' dataframe
    H,              \* running sum grid of interval_frequency_histogram2d
    Hplot,          \* the grid handed to pcolormesh
    csv_paths,      \* config.csv_paths: the raw file of each raw/processed pair
    overwrite,      \* config.args.overwrite
    fs,             \* the processed file of each pair
    k,              \* loop index of delaunay_triangulation
    tri,            \* the last triangulation: the pair it was made for and its simplices
    tpc,            \* position of delaunay_triangulation
    terr            \* the exception that ended the triangulation run, "none" otherwise

covvars == <<cfg, loader, interval_list, il_defined, date_pairs, xy, xbins, ybins,
             pc, err, i, df, H, Hplot>>
trivars == <<csv_paths, overwrite, fs, k, tri, tpc, terr>>
vars == <<cfg, loader, interval_list, il_defined, date_pairs, xy, xbins, ybins,
          pc, err, i, df, H, Hplot, csv_paths, overwrite, fs, k, tri, tpc, terr>>

(***************************************************************************)
(* Bounds                                                                  *)
(***************************************************************************)
MaxIntervals == 3

MaxPairs == 2

(***************************************************************************)
(* Inputs                                                                  *)
(***************************************************************************)
\* Resolutions (km) that give grids of 3x2, 2x1 and 0x0 bins.
Resolutions == {2300, 3450, 7000}

\* Projected points (metres): two opposite corners of the basin box and a
\* point close to the lower corner.
PointUniverse == {<<-4400000, -2500000>>, <<2500000, 3500000>>, <<-4000000, -2000000>>}

FlagValues == {"True", "False"}

\* What loading interval n yields: a dataframe with lon/lat columns whose
\* projected points are pts; a dataframe without those columns (the KeyError
\* of interval_df['lon']); or a DataFileError raised by the loader.
LoaderOutcomes ==
    [kind : {"ok"}, pts : (SUBSET PointUniverse) \ {{}}]
        \cup {[kind |-> "nokey", pts |-> {}], [kind |-> "dferr", pts |-> {}]}

\* Length (hours) of one interval of divide_intervals.
IntervalHours == 72

(***************************************************************************)
(* Helpers                                                                 *)
(***************************************************************************)
SetMin(S) == CHOOSE m \in S : \A n \in S : m <= n

SetMax(S) == CHOOSE m \in S : \A n \in S : m >= n

CeilDiv(a, b) == IF a % b = 0 THEN a \div b ELSE (a \div b) + 1

\* Python's == between a str and a bool: never equal.
StrEqBool(s, b) == FALSE

(***************************************************************************)
(* get_map_bins                                                            *)
(***************************************************************************)
lxextent == -4400000

uxextent == 2500000

uyextent == 3500000

lyextent == -2500000

\* math.floor(scale / (1000 * resolution))
BinCount(scale, resolution) == scale \div (1000 * resolution)

\* np.arange(start, stop, step) on rationals of denominator den: ceil((stop -
\* start) / step) values start + j*step.  A zero or undefined step has no
\* length (numpy raises).
Arange(startNum, stopNum, stepNum, den) ==
    IF den = 0 \/ stepNum = 0
    THEN [ok |-> FALSE, den |-> 0, num |-> <<>>]
    ELSE [ok |-> TRUE, den |-> den,
          num |-> [j \in 1..CeilDiv(stopNum - startNum, stepNum) |->
                        startNum + (j - 1) * stepNum]]

\* One axis of get_map_bins: d = (max - min) / scale; arange(min, max + d, d).
\* With denominator scale: min = min*scale/scale, d = (max - min)/scale.
AxisBins(vals, scale) ==
    Arange(SetMin(vals) * scale,
           SetMax(vals) * scale + (SetMax(vals) - SetMin(vals)),
           SetMax(vals) - SetMin(vals),
           scale)

get_map_bins(pts, resolution) ==
    [x |-> AxisBins({p[1] : p \in pts}, BinCount(uxextent - lxextent, resolution)),
     y |-> AxisBins({p[2] : p \in pts}, BinCount(uyextent - lyextent, resolution))]

(***************************************************************************)
(* coverage_histogram2d                                                    *)
(***************************************************************************)
NBins(bins) == Len(bins.num) - 1

\* np.histogram: value v lies in bin b (1-based) when edge[b] <= v < edge[b+1];
\* the last bin also holds v = last edge.
InBin(v, bins, b) ==
    /\ bins.num[b] <= v * bins.den
    /\ \/ v * bins.den < bins.num[b + 1]
       \/ b = NBins(bins) /\ v * bins.den = bins.num[b + 1]

Cells(shape) ==
    IF Len(shape) = 2 THEN (1..shape[1]) \X (1..shape[2]) ELSE {}

\* np.histogram2d followed by H[H>1] = 1
coverage_histogram2d(pts, xb, yb) ==
    LET shape == <<NBins(xb), NBins(yb)>>
        count(c) == Cardinality({p \in pts : InBin(p[1], xb, c[1]) /\ InBin(p[2], yb, c[2])})
    IN [shape |-> shape,
        cell |-> [c \in Cells(shape) |-> IF count(c) > 1 THEN 1 ELSE count(c)]]

(***************************************************************************)
(* interval_frequency_histogram2d: array operations                        *)
(***************************************************************************)
\* np.array([])
EmptyArray == [shape |-> <<0>>, cell |-> [c \in {} |-> 0]]

\* histogram[histogram > 0.0] = 1.0
ClampPositive(h) ==
    [shape |-> h.shape, cell |-> [c \in DOMAIN h.cell |-> IF h.cell[c] > 0 THEN 1 ELSE 0]]

\* H.resize(shape) on the empty array: zeros of that shape
Resize(shape) == [shape |-> shape, cell |-> [c \in Cells(shape) |-> 0]]

\* numpy broadcasting of a left operand of shape a with a 2-d right operand
\* of shape b: the trailing dimensions must be equal or one of them 1.
Broadcastable(a, b) ==
    IF Len(a) = 2
    THEN /\ a[1] = b[1] \/ a[1] = 1 \/ b[1] = 1
         /\ a[2] = b[2] \/ a[2] = 1 \/ b[2] = 1
    ELSE a[1] = b[2] \/ a[1] = 1 \/ b[2] = 1

BroadcastDim(m, n) == IF m = 1 THEN n ELSE m

BroadcastShape(a, b) ==
    IF Len(a) = 2
    THEN <<BroadcastDim(a[1], b[1]), BroadcastDim(a[2], b[2])>>
    ELSE <<b[1], BroadcastDim(a[1], b[2])>>

\* element of array g at cell c of the broadcast result
BroadcastAt(g, c) ==
    IF Len(g.shape) = 2
    THEN g.cell[<<IF g.shape[1] = 1 THEN 1 ELSE c[1], IF g.shape[2] = 1 THEN 1 ELSE c[2]>>]
    ELSE 0

AddTwice(g, h) ==
    LET shape == BroadcastShape(g.shape, h.shape)
    IN [shape |-> shape,
        cell |-> [c \in Cells(shape) |-> BroadcastAt(g, c) + 2 * BroadcastAt(h, c)]]

\* H + histogram
Add(g, h) ==
    LET shape == BroadcastShape(g.shape, h.shape)
    IN [shape |-> shape,
        cell |-> [c \in Cells(shape) |-> BroadcastAt(g, c) + BroadcastAt(h, c)]]

\* nan, as the rational 0/0
NaN == [num |-> 0, den |-> 0]

\* H.T
Transpose(g) ==
    IF Len(g.shape) = 2
    THEN [shape |-> <<g.shape[2], g.shape[1]>>,
          cell |-> [c \in Cells(<<g.shape[2], g.shape[1]>>) |-> g.cell[<<c[2], c[1]>>]]]
    ELSE g

PlotGridUnscaled(g, n) ==
    LET t == Transpose(g)
    IN [shape |-> t.shape,
        cell |-> [c \in DOMAIN t.cell |->
                    IF t.cell[c] = 0 THEN NaN ELSE [num |-> t.cell[c], den |-> n]]]

\* H = H.T; H[H == 0] = nan; H = H*100.0; H/len(interval_list)
PlotGrid(g, n) ==
    LET t == Transpose(g)
    IN [shape |-> t.shape,
        cell |-> [c \in DOMAIN t.cell |->
                    IF t.cell[c] = 0 THEN NaN ELSE [num |-> t.cell[c] * 100, den |-> n]]]

(***************************************************************************)
(* coverage_timeseries: one row of the dataframe                           *)
(***************************************************************************)
arctic_ocean_area == 15558000

\* covered_percentage = (covered_area / (arctic_ocean_area / int(resolution)**2)) * 100,
\* kept as the rational num/den (both divided by 100; resolutions are multiples of 10)
CoveredPercentage(histogram, resolution) ==
    [num |-> Cardinality({c \in DOMAIN histogram.cell : histogram.cell[c] # 0})
                * 100 * ((resolution * resolution) \div 100),
     den |-> arctic_ocean_area \div 100]

TsRowShifted(n, rows, pairs, histogram, resolution) ==
    [percentage |-> CoveredPercentage(histogram, resolution),
     start_date |-> pairs[Len(rows) + 1][1],
     end_date   |-> pairs[Len(rows) + 1][2]]

\* [covered_percentage, date_pairs[i][0], date_pairs[i][1]] for interval n
\* (1-based), to be stored at df.loc[len(df.index)]
TsRow(n, rows, pairs, histogram, resolution) ==
    [percentage |-> CoveredPercentage(histogram, resolution),
     start_date |-> pairs[n][1],
     end_date   |-> pairs[n][2]]

(***************************************************************************)
(* Coverage main program                                                   *)
(***************************************************************************)
NoBins == [ok |-> FALSE, den |-> 0, num |-> <<>>]

TriIdle ==
    /\ csv_paths = <<>>
    /\ overwrite = FALSE
    /\ fs = <<>>
    /\ k = 0
    /\ tri = [pair |-> 0, simplices |-> <<>>]
    /\ tpc = "idle"
    /\ terr = "none"

Init ==
    /\ cfg \in [visualise_timeseries : FlagValues, visualise_interval : FlagValues,
                resolution : Resolutions]
    /\ \E n \in 1..MaxIntervals : loader \in [1..n -> LoaderOutcomes]
    /\ interval_list = <<>>
    /\ il_defined = FALSE
    /\ date_pairs = <<>>
    /\ xy = {}
    /\ xbins = NoBins
    /\ ybins = NoBins
    /\ pc = "start"
    /\ err = "none"
    /\ i = 0
    /\ df = <<>>
    /\ H = EmptyArray
    /\ Hplot = EmptyArray
    /\ TriIdle

\* line 316: visualise_timeseries == 'True' or visualise_interval == True
DivideCondition ==
    cfg.visualise_timeseries = "True" \/ StrEqBool(cfg.visualise_interval, TRUE)

\* line 317: interval_list, date_pairs = divide_intervals(...)
DivideIntervals ==
    /\ pc = "start" /\ err = "none"
    /\ DivideCondition
    /\ interval_list' = [n \in 1..Len(loader) |-> n]
    /\ date_pairs' = [n \in 1..Len(loader) |-> <<(n - 1) * IntervalHours, n * IntervalHours>>]
    /\ il_defined' = TRUE
    /\ pc' = "compile"
    /\ UNCHANGED <<cfg, loader, xy, xbins, ybins, err, i, df, H, Hplot>>
    /\ UNCHANGED trivars

SkipDivide ==
    /\ pc = "start" /\ err = "none"
    /\ ~DivideCondition
    /\ pc' = "compile"
    /\ UNCHANGED <<cfg, loader, interval_list, il_defined, date_pairs, xy, xbins, ybins,
                   err, i, df, H, Hplot>>
    /\ UNCHANGED trivars

\* lines 320-323: df = compile_data(raw_list); xy = convert_to_grid(df['lon'], df['lat'])
CompileMaster ==
    /\ pc = "compile" /\ err = "none"
    /\ LET pts == UNION {loader[n].pts : n \in DOMAIN loader}
       IN IF pts = {}
          THEN err' = "KeyError" /\ UNCHANGED <<xy, pc>>
          ELSE xy' = pts /\ pc' = "bins" /\ UNCHANGED err
    /\ UNCHANGED <<cfg, loader, interval_list, il_defined, date_pairs, xbins, ybins,
                   i, df, H, Hplot>>
    /\ UNCHANGED trivars

\* line 327: xbins, ybins = get_map_bins(xy, options)
GetMapBins ==
    /\ pc = "bins" /\ err = "none"
    /\ LET b == get_map_bins(xy, cfg.resolution)
       IN IF b.x.ok /\ b.y.ok
          THEN xbins' = b.x /\ ybins' = b.y /\ pc' = "call_ts" /\ UNCHANGED err
          ELSE err' = "ValueError" /\ UNCHANGED <<xbins, ybins, pc>>
    /\ UNCHANGED <<cfg, loader, interval_list, il_defined, date_pairs, xy, i, df, H, Hplot>>
    /\ UNCHANGED trivars

\* lines 329-331
CallTimeseries ==
    /\ pc = "call_ts" /\ err = "none"
    /\ cfg.visualise_timeseries = "True"
    /\ IF il_defined
       THEN pc' = "ts_loop" /\ i' = 0 /\ df' = <<>> /\ UNCHANGED err
       ELSE err' = "NameError" /\ UNCHANGED <<pc, i, df>>
    /\ UNCHANGED <<cfg, loader, interval_list, il_defined, date_pairs, xy, xbins, ybins,
                   H, Hplot>>
    /\ UNCHANGED trivars

SkipTimeseries ==
    /\ pc = "call_ts" /\ err = "none"
    /\ cfg.visualise_timeseries # "True"
    /\ pc' = "call_freq"
    /\ UNCHANGED <<cfg, loader, interval_list, il_defined, date_pairs, xy, xbins, ybins,
                   err, i, df, H, Hplot>>
    /\ UNCHANGED trivars

(***************************************************************************)
(* coverage_timeseries: the loop of lines 115-137                          *)
(***************************************************************************)
\* line 117: compile_data raises; nothing catches a DataFileError
TsLoaderError ==
    /\ pc = "ts_loop" /\ err = "none"
    /\ i < Len(interval_list)
    /\ loader[interval_list[i + 1]].kind = "dferr"
    /\ err' = "DataFileError"
    /\ UNCHANGED <<cfg, loader, interval_list, il_defined, date_pairs, xy, xbins, ybins,
                   pc, i, df, H, Hplot>>
    /\ UNCHANGED trivars

\* lines 120-123: except KeyError: continue
TsSkip ==
    /\ pc = "ts_loop" /\ err = "none"
    /\ i < Len(interval_list)
    /\ loader[interval_list[i + 1]].kind = "nokey"
    /\ i' = i + 1
    /\ UNCHANGED <<cfg, loader, interval_list, il_defined, date_pairs, xy, xbins, ybins,
                   pc, err, df, H, Hplot>>
    /\ UNCHANGED trivars

\* lines 126-137
TsAppendRow ==
    /\ pc = "ts_loop" /\ err = "none"
    /\ i < Len(interval_list)
    /\ loader[interval_list[i + 1]].kind = "ok"
    /\ LET histogram == coverage_histogram2d(loader[interval_list[i + 1]].pts, xbins, ybins)
       IN df' = Append(df, TsRow(i + 1, df, date_pairs, histogram, cfg.resolution))
    /\ i' = i + 1
    /\ UNCHANGED <<cfg, loader, interval_list, il_defined, date_pairs, xy, xbins, ybins,
                   pc, err, H, Hplot>>
    /\ UNCHANGED trivars

\* end of the loop; the table goes to the plot and main goes on
TsFinish ==
    /\ pc = "ts_loop" /\ err = "none"
    /\ i = Len(interval_list)
    /\ pc' = "call_freq"
    /\ UNCHANGED <<cfg, loader, interval_list, il_defined, date_pairs, xy, xbins, ybins,
                   err, i, df, H, Hplot>>
    /\ UNCHANGED trivars

(***************************************************************************)
(* interval_frequency_histogram2d                                          *)
(***************************************************************************)
\* lines 333-335 and 175
CallFrequency ==
    /\ pc = "call_freq" /\ err = "none"
    /\ cfg.visualise_interval = "True"
    /\ IF il_defined
       THEN pc' = "freq_loop" /\ i' = 0 /\ H' = EmptyArray /\ UNCHANGED err
       ELSE err' = "NameError" /\ UNCHANGED <<pc, i, H>>
    /\ UNCHANGED <<cfg, loader, interval_list, il_defined, date_pairs, xy, xbins, ybins,
                   df, Hplot>>
    /\ UNCHANGED trivars

SkipFrequency ==
    /\ pc = "call_freq" /\ err = "none"
    /\ cfg.visualise_interval # "True"
    /\ pc' = "done"
    /\ UNCHANGED <<cfg, loader, interval_list, il_defined, date_pairs, xy, xbins, ybins,
                   err, i, df, H, Hplot>>
    /\ UNCHANGED trivars

\* lines 180-187: except KeyError: continue.  A DataFileError raised by
\* compile_data at line 180 is caught by nothing.  (main reaches this mode
\* only behind the time-series mode, which the same error has ended before.)
FreqSkip ==
    /\ pc = "freq_loop" /\ err = "none"
    /\ i < Len(interval_list)
    /\ loader[interval_list[i + 1]].kind # "ok"
    /\ IF loader[interval_list[i + 1]].kind = "dferr"
       THEN err' = "DataFileError" /\ UNCHANGED i
       ELSE i' = i + 1 /\ UNCHANGED err
    /\ UNCHANGED <<cfg, loader, interval_list, il_defined, date_pairs, xy, xbins, ybins,
                   pc, df, H, Hplot>>
    /\ UNCHANGED trivars

\* lines 190-198: rasterize, clamp, resize when i == 0, H = H + histogram
FreqAccumulate ==
    /\ pc = "freq_loop" /\ err = "none"
    /\ i < Len(interval_list)
    /\ loader[interval_list[i + 1]].kind = "ok"
    /\ LET histogram == ClampPositive(
                            coverage_histogram2d(loader[interval_list[i + 1]].pts, xbins, ybins))
           H0 == IF i = 0 THEN Resize(histogram.shape) ELSE H
       IN IF Broadcastable(H0.shape, histogram.shape)
          THEN H' = Add(H0, histogram) /\ i' = i + 1 /\ UNCHANGED err
          ELSE err' = "ValueError" /\ H' = H0 /\ UNCHANGED i
    /\ UNCHANGED <<cfg, loader, interval_list, il_defined, date_pairs, xy, xbins, ybins,
                   pc, df, Hplot>>
    /\ UNCHANGED trivars

\* lines 201-227: the grid handed to pcolormesh
FreqFinish ==
    /\ pc = "freq_loop" /\ err = "none"
    /\ i = Len(interval_list)
    /\ Hplot' = PlotGrid(H, Len(interval_list))
    /\ pc' = "done"
    /\ UNCHANGED <<cfg, loader, interval_list, il_defined, date_pairs, xy, xbins, ybins,
                   err, i, df, H>>
    /\ UNCHANGED trivars

Next ==
    \/ DivideIntervals
    \/ SkipDivide
    \/ CompileMaster
    \/ GetMapBins
    \/ CallTimeseries
    \/ SkipTimeseries
    \/ TsLoaderError
    \/ TsSkip
    \/ TsAppendRow
    \/ TsFinish
    \/ CallFrequency
    \/ SkipFrequency
    \/ FreqSkip
    \/ FreqAccumulate
    \/ FreqFinish

Spec == Init /\ [][Next]_vars

(***************************************************************************)
(* Properties of the coverage program                                      *)
(***************************************************************************)
Skipped(n) == loader[interval_list[n]].kind = "nokey"

NonSkipped(n) == loader[interval_list[n]].kind = "ok"

InFrequencyMode ==
    pc = "freq_loop" \/ (pc = "done" /\ cfg.visualise_interval = "True")

\* number of accumulate steps (line 198) applied so far
AccumulatedCount ==
    IF InFrequencyMode THEN Cardinality({n \in 1..i : NonSkipped(n)}) ELSE 0

HistogramShape == <<NBins(xbins), NBins(ybins)>>

\* C1: in frequency-grid mode, after every accumulate step, every cell of the
\* running sum grid is at most the number of intervals accumulated so far,
\* also when some intervals were skipped.
C1_SumAtMostIntervalCount ==
    \A c \in DOMAIN H.cell : H.cell[c] <= AccumulatedCount

C1_Witness ==
    /\ pc = "freq_loop"
    /\ \E n \in 1..i : Skipped(n)
    /\ AccumulatedCount >= 2
    /\ \E c \in DOMAIN H.cell : H.cell[c] = AccumulatedCount
    /\ \E c \in DOMAIN H.cell : H.cell[c] < AccumulatedCount

\* C2: in time-series mode an interval whose loader raises DataFileError adds
\* no row and does not abort the run: the loop goes on with the next interval.
C2_DataFileErrorSkipsInterval ==
    pc = "ts_loop" => err # "DataFileError"

\* C3: in frequency-grid mode the running sum grid has the shape of the
\* occupancy grid from the first non-skipped interval on, whichever its
\* position, and later grids are added onto it without error.
C3_ShapeFromFirstNonSkipped ==
    pc = "freq_loop" =>
        /\ err # "ValueError"
        /\ AccumulatedCount > 0 => H.shape = HistogramShape

FrequencyDone == pc = "done" /\ cfg.visualise_interval = "True"

\* value v (a rational or nan) equals (s / n) * 100, a zero sum being no-data
IsPercentOf(v, s, n) ==
    IF s = 0 THEN v = NaN ELSE v # NaN /\ v.num * n = s * 100 * v.den

\* C4 as stated: the final value of every cell is (sum / interval_count) * 100
\* with interval_count the number of accumulate steps applied, zero sums being
\* no-data.
C4_PercentOfAccumulated ==
    FrequencyDone =>
        \A c \in DOMAIN Hplot.cell :
            IsPercentOf(Hplot.cell[c], H.cell[<<c[2], c[1]>>], AccumulatedCount)

AllIdentical ==
    \A n \in 1..Len(interval_list) :
        NonSkipped(n) /\ loader[interval_list[n]].pts = loader[interval_list[1]].pts

\* C4 amended: when the frequency-grid run reaches its end, the final value of
\* every cell is sum * 100 / len(interval_list), the divisor counting skipped
\* intervals too, zero sums being no-data; when every interval of the list is
\* accumulated and all hold the same point set, every cell that is not
\* no-data is exactly 100.
C4_PercentOfIntervalList ==
    FrequencyDone =>
        /\ \A c \in DOMAIN Hplot.cell :
              IsPercentOf(Hplot.cell[c], H.cell[<<c[2], c[1]>>], Len(interval_list))
        /\ AllIdentical =>
              \A c \in DOMAIN Hplot.cell :
                  Hplot.cell[c] # NaN => Hplot.cell[c].num = 100 * Hplot.cell[c].den

C4_Witness ==
    /\ FrequencyDone
    /\ \E n \in 1..Len(interval_list) : Skipped(n)
    /\ AccumulatedCount >= 2
    /\ \E c \in DOMAIN Hplot.cell : Hplot.cell[c] = NaN
    /\ \E c \in DOMAIN Hplot.cell :
            Hplot.cell[c] # NaN /\ Hplot.cell[c].num = AccumulatedCount * 100

\* number of intervals the time-series loop has gone through
TsProcessed ==
    IF pc = "ts_loop" THEN i
    ELSE IF pc \in {"call_freq", "freq_loop", "done"} /\ cfg.visualise_timeseries = "True"
         THEN Len(interval_list)
         ELSE 0

\* the non-skipped intervals among the first m, in increasing order
NonSkippedUpTo(m) ==
    LET keep(n) == NonSkipped(n)
    IN SelectSeq([n \in 1..m |-> n], keep)

\* C5: the time-series table holds exactly one row per non-skipped interval
\* gone through and none for a skipped one, in increasing interval order, and
\* the row of interval n carries date_pairs[n], also after skipped intervals.
C5_OneRowPerNonSkippedInterval ==
    LET idx == NonSkippedUpTo(TsProcessed)
    IN /\ Len(df) = Len(idx)
       /\ \A j \in 1..Len(df) :
            /\ df[j].start_date = date_pairs[idx[j]][1]
            /\ df[j].end_date = date_pairs[idx[j]][2]
       /\ \A j \in 1..(Len(df) - 1) : df[j].start_date < df[j + 1].start_date

C5_Witness ==
    /\ pc = "call_freq"
    /\ cfg.visualise_timeseries = "True"
    /\ Len(interval_list) = 3
    /\ Skipped(1) /\ NonSkipped(2) /\ NonSkipped(3)
    /\ Len(df) = 2

FirstEdgeCoversMin(bins, vals) == bins.num[1] <= SetMin(vals) * bins.den

LastEdgeCoversMax(bins, vals) == bins.num[Len(bins.num)] >= SetMax(vals) * bins.den

\* C6: for every resolution R > 0 and every non-empty point set, get_map_bins
\* returns per axis edges with first edge <= min and last edge >= max, and
\* floor(basin_extent / (R * 1000)) bins when the data spans the basin box.
C6_BinsCoverData ==
    /\ pc = "bins" => err = "none"
    /\ pc \in {"call_ts", "ts_loop", "call_freq", "freq_loop", "done"} =>
        LET xs == {p[1] : p \in xy}
            ys == {p[2] : p \in xy}
        IN /\ FirstEdgeCoversMin(xbins, xs) /\ LastEdgeCoversMax(xbins, xs)
           /\ FirstEdgeCoversMin(ybins, ys) /\ LastEdgeCoversMax(ybins, ys)
           /\ (SetMin(xs) = lxextent /\ SetMax(xs) = uxextent) =>
                 NBins(xbins) = BinCount(uxextent - lxextent, cfg.resolution)
           /\ (SetMin(ys) = lyextent /\ SetMax(ys) = uyextent) =>
                 NBins(ybins) = BinCount(uyextent - lyextent, cfg.resolution)

\* C10: for every combination of the two flags, when main calls an
\* aggregation mode, divide_intervals has run, so interval_list is defined.
C10_IntervalListDefinedBeforeUse ==
    /\ (pc = "call_ts" /\ cfg.visualise_timeseries = "True") => il_defined
    /\ (pc = "call_freq" /\ cfg.visualise_interval = "True") => il_defined

(***************************************************************************)
(* delaunay_triangulation: inputs                                          *)
(***************************************************************************)
\* What load_raw_csv yields for a raw file: a DataFileError, or the starting
\* longitudes and latitudes (degrees) of its points.
RawError == [kind |-> "dferr", sLon |-> <<>>, sLat |-> <<>>]

RawTriangle == [kind |-> "ok", sLon |-> <<0, 2, 0>>, sLat |-> <<0, 0, 2>>]

RawQuad == [kind |-> "ok", sLon |-> <<0, 3, 4, 0>>, sLat |-> <<0, 0, 3, 2>>]

RawCollinear == [kind |-> "ok", sLon |-> <<0, 1, 2>>, sLat |-> <<0, 1, 2>>]

RawFiles == {RawError, RawTriangle, RawQuad, RawCollinear}

Absent == [state |-> "absent", header |-> <<>>, rows |-> <<>>]

\* a processed file left by an earlier run
Existing == [state |-> "old", header |-> <<>>, rows |-> <<>>]

(***************************************************************************)
(* delaunay_triangulation: projection and triangulation                    *)
(***************************************************************************)
\* metres per degree of the aeqd projection centred at lon 0, lat 0,
\* linearised at its centre
MetresPerDegree == 111195

\* sX_aeqd, sY_aeqd = p(sLon, sLat)
Project(sLon, sLat) ==
    [X |-> [n \in DOMAIN sLon |-> MetresPerDegree * sLon[n]],
     Y |-> [n \in DOMAIN sLat |-> MetresPerDegree * sLat[n]]]

\* The geometric predicates are evaluated on coordinates divided by
\* MetresPerDegree (all coordinates are multiples of it): their signs are
\* unchanged and the products stay in range.
Coord(P, a) == <<P.X[a + 1] \div MetresPerDegree, P.Y[a + 1] \div MetresPerDegree>>

\* twice the signed area of triangle a, b, c (0-based point indices)
Orient(P, a, b, c) ==
    LET A == Coord(P, a)
        B == Coord(P, b)
        C == Coord(P, c)
    IN (B[1] - A[1]) * (C[2] - A[2]) - (C[1] - A[1]) * (B[2] - A[2])

\* for a counterclockwise triangle a, b, c: point d lies strictly inside its
\* circumcircle
InCircle(P, a, b, c, d) ==
    LET D == Coord(P, d)
        rel(q) == <<Coord(P, q)[1] - D[1], Coord(P, q)[2] - D[2]>>
        sq(v) == v[1] * v[1] + v[2] * v[2]
        A == rel(a)
        B == rel(b)
        C == rel(c)
    IN A[1] * (B[2] * sq(C) - C[2] * sq(B))
         - A[2] * (B[1] * sq(C) - C[1] * sq(B))
         + sq(A) * (B[1] * C[2] - C[1] * B[2]) > 0

PointIndices(P) == 0..(Len(P.X) - 1)

\* counterclockwise index triples whose circumcircle holds no other point
DelaunayTriples(P) ==
    {t \in PointIndices(P) \X PointIndices(P) \X PointIndices(P) :
        /\ Orient(P, t[1], t[2], t[3]) > 0
        /\ \A d \in PointIndices(P) \ {t[1], t[2], t[3]} : ~InCircle(P, t[1], t[2], t[3], d)}

VertexSet(t) == {t[1], t[2], t[3]}

\* Delaunay(sXY_aeqd).simplices: every Delaunay triangle once,
\* counterclockwise; the order of the simplices and the first vertex of each
\* are the library's choice.
Simplices(P) ==
    LET T == DelaunayTriples(P)
        m == Cardinality({VertexSet(t) : t \in T})
    IN {s \in [1..m -> T] : \A a, b \in 1..m : a # b => VertexSet(s[a]) # VertexSet(s[b])}

\* Qhull refuses an input without a non-degenerate triangle
Degenerate(P) == DelaunayTriples(P) = {}

header ==
    <<"no.", "sX1_aeqd", "sX2_aeqd", "sX3_aeqd", "sY1_aeqd", "sY2_aeqd", "sY3_aeqd",
      "vertice_idx1", "vertice_idx2", "vertice_idx3">>

TriangleRowCopiedIndex(n, P, simplices) ==
    [no |-> n,
     sX1_aeqd |-> P.X[simplices[n + 1][1] + 1],
     sX2_aeqd |-> P.X[simplices[n + 1][1] + 1],
     sX3_aeqd |-> P.X[simplices[n + 1][3] + 1],
     sY1_aeqd |-> P.Y[simplices[n + 1][1] + 1],
     sY2_aeqd |-> P.Y[simplices[n + 1][2] + 1],
     sY3_aeqd |-> P.Y[simplices[n + 1][3] + 1],
     vertice_idx1 |-> simplices[n + 1][1],
     vertice_idx2 |-> simplices[n + 1][2],
     vertice_idx3 |-> simplices[n + 1][3]]

\* lines 67-83: the row of triangle n (0-based)
TriangleRow(n, P, simplices) ==
    [no |-> n,
     sX1_aeqd |-> P.X[simplices[n + 1][1] + 1],
     sX2_aeqd |-> P.X[simplices[n + 1][2] + 1],
     sX3_aeqd |-> P.X[simplices[n + 1][3] + 1],
     sY1_aeqd |-> P.Y[simplices[n + 1][1] + 1],
     sY2_aeqd |-> P.Y[simplices[n + 1][2] + 1],
     sY3_aeqd |-> P.Y[simplices[n + 1][3] + 1],
     vertice_idx1 |-> simplices[n + 1][1],
     vertice_idx2 |-> simplices[n + 1][2],
     vertice_idx3 |-> simplices[n + 1][3]]

\* lines 61-83: for n in range(len(tri.simplices)): row_list.append(...)
RowList(P, simplices) ==
    [n \in 1..Len(simplices) |-> TriangleRow(n - 1, P, simplices)]

(***************************************************************************)
(* delaunay_triangulation: the loop of lines 33-96                         *)
(***************************************************************************)
CovIdle ==
    /\ cfg = [visualise_timeseries |-> "False", visualise_interval |-> "False",
              resolution |-> 2300]
    /\ loader = <<>>
    /\ interval_list = <<>>
    /\ il_defined = FALSE
    /\ date_pairs = <<>>
    /\ xy = {}
    /\ xbins = NoBins
    /\ ybins = NoBins
    /\ pc = "idle"
    /\ err = "none"
    /\ i = 0
    /\ df = <<>>
    /\ H = EmptyArray
    /\ Hplot = EmptyArray

InitTri ==
    /\ \E n \in 1..MaxPairs :
        /\ csv_paths \in [1..n -> [raw : RawFiles]]
        /\ fs \in [1..n -> {Absent, Existing}]
    /\ overwrite \in BOOLEAN
    /\ k = 0
    /\ tri = [pair |-> 0, simplices |-> <<>>]
    /\ tpc = "loop"
    /\ terr = "none"
    /\ CovIdle

\* line 37: os.path.exists(processed_csv_path) and not config.args.overwrite
SkipsPair(n) == fs[n].state # "absent" /\ ~overwrite

\* lines 37-38
TriSkipExisting ==
    /\ tpc = "loop" /\ terr = "none"
    /\ k < Len(csv_paths)
    /\ SkipsPair(k + 1)
    /\ k' = k + 1
    /\ UNCHANGED <<csv_paths, overwrite, fs, tri, tpc, terr>>
    /\ UNCHANGED covvars

\* lines 42-46: load_raw_csv raises DataFileError; the handler's
\* print(dfe + '...') adds an exception to a str and raises TypeError before
\* its continue
TriLoadError ==
    /\ tpc = "loop" /\ terr = "none"
    /\ k < Len(csv_paths)
    /\ ~SkipsPair(k + 1)
    /\ csv_paths[k + 1].raw.kind = "dferr"
    /\ terr' = "TypeError"
    /\ UNCHANGED <<csv_paths, overwrite, fs, k, tri, tpc>>
    /\ UNCHANGED covvars

\* lines 50-54: Delaunay raises QhullError on a degenerate point set
TriQhullError ==
    /\ tpc = "loop" /\ terr = "none"
    /\ k < Len(csv_paths)
    /\ ~SkipsPair(k + 1)
    /\ csv_paths[k + 1].raw.kind = "ok"
    /\ Degenerate(Project(csv_paths[k + 1].raw.sLon, csv_paths[k + 1].raw.sLat))
    /\ terr' = "QhullError"
    /\ UNCHANGED <<csv_paths, overwrite, fs, k, tri, tpc>>
    /\ UNCHANGED covvars

\* lines 50-96: project, triangulate, build the rows, write the processed file
TriProcess ==
    /\ tpc = "loop" /\ terr = "none"
    /\ k < Len(csv_paths)
    /\ ~SkipsPair(k + 1)
    /\ csv_paths[k + 1].raw.kind = "ok"
    /\ LET P == Project(csv_paths[k + 1].raw.sLon, csv_paths[k + 1].raw.sLat)
       IN /\ ~Degenerate(P)
          /\ \E s \in Simplices(P) :
                /\ tri' = [pair |-> k + 1, simplices |-> s]
                /\ fs' = [fs EXCEPT ![k + 1] =
                            [state |-> "written", header |-> header, rows |-> RowList(P, s)]]
    /\ k' = k + 1
    /\ UNCHANGED <<csv_paths, overwrite, tpc, terr>>
    /\ UNCHANGED covvars

\* the zip is exhausted
TriFinish ==
    /\ tpc = "loop" /\ terr = "none"
    /\ k = Len(csv_paths)
    /\ tpc' = "done"
    /\ UNCHANGED <<csv_paths, overwrite, fs, k, tri, terr>>
    /\ UNCHANGED covvars

NextTri ==
    \/ TriSkipExisting
    \/ TriLoadError
    \/ TriQhullError
    \/ TriProcess
    \/ TriFinish

SpecTri == InitTri /\ [][NextTri]_vars

(***************************************************************************)
(* Properties of delaunay_triangulation                                    *)
(***************************************************************************)
ValidIndex(n, idx) == idx \in 0..(Len(csv_paths[n].raw.sLon) - 1)

RowMatchesPoints(n, r) ==
    LET P == Project(csv_paths[n].raw.sLon, csv_paths[n].raw.sLat)
    IN /\ ValidIndex(n, r.vertice_idx1)
       /\ ValidIndex(n, r.vertice_idx2)
       /\ ValidIndex(n, r.vertice_idx3)
       /\ r.sX1_aeqd = P.X[r.vertice_idx1 + 1] /\ r.sY1_aeqd = P.Y[r.vertice_idx1 + 1]
       /\ r.sX2_aeqd = P.X[r.vertice_idx2 + 1] /\ r.sY2_aeqd = P.Y[r.vertice_idx2 + 1]
       /\ r.sX3_aeqd = P.X[r.vertice_idx3 + 1] /\ r.sY3_aeqd = P.Y[r.vertice_idx3 + 1]

\* C7: in every triangle row written, each of the three vertex indices is a
\* valid index into the raw file's point arrays and the projected point at
\* vertex index j is the stored (sXj_aeqd, sYj_aeqd) pair, j = 1, 2, 3; the
\* rows are numbered 0..T-1, one row per simplex.
C7_RowsRoundTripThroughIndices ==
    /\ \A n \in DOMAIN fs :
          fs[n].state = "written" =>
              \A m \in 1..Len(fs[n].rows) :
                  /\ fs[n].rows[m].no = m - 1
                  /\ RowMatchesPoints(n, fs[n].rows[m])
    /\ tri.pair # 0 =>
          /\ Len(fs[tri.pair].rows) = Len(tri.simplices)
          /\ \A m \in 1..Len(tri.simplices) :
                <<fs[tri.pair].rows[m].vertice_idx1, fs[tri.pair].rows[m].vertice_idx2,
                  fs[tri.pair].rows[m].vertice_idx3>> = tri.simplices[m]

C7_Witness ==
    /\ tri.pair # 0
    /\ Len(tri.simplices) = 2
    /\ fs[tri.pair].state = "written"
    /\ Len(fs[tri.pair].rows) = 2
    /\ fs[tri.pair].rows[2].vertice_idx1 # 0
    /\ fs[tri.pair].rows[2].sX1_aeqd # fs[tri.pair].rows[2].sY1_aeqd

\* C8: a raw file whose loading raises DataFileError is skipped and the loop
\* goes on with the remaining pairs; the error does not end the run.
C8_DataFileErrorSkipsFile ==
    \A n \in DOMAIN csv_paths :
        (k = n - 1 /\ ~SkipsPair(n) /\ csv_paths[n].raw.kind = "dferr") => terr = "none"

RunEnded == tpc = "done" \/ terr # "none"

\* C9: a pair whose processed file exists while overwrite is false keeps its
\* processed file unchanged, and after the run every other pair whose raw
\* file loads has a written processed file.
C9_ExistingKeptOthersWritten ==
    /\ [][\A n \in DOMAIN fs : SkipsPair(n) => fs'[n] = fs[n]]_vars
    /\ [](RunEnded =>
            \A n \in DOMAIN fs :
                (~SkipsPair(n) /\ csv_paths[n].raw.kind = "ok") => fs[n].state = "written")

====
